---- MODULE Spec2Model ----
(***************************************************************************)
(* AsyncPreserver (internal/component/input/async_preserver.go): a wrapper *)
(* around an input.Async source that keeps failed batches in a resend      *)
(* queue and redelivers them before reading new batches.                   *)
(*                                                                         *)
(* Threads of the model: one reader, which calls Connect and ReadBatch one *)
(* at a time; one thread per wrapped acknowledgment function handed to the *)
(* caller, which the caller invokes at most once, at any time; and the     *)
(* caller's scope of the running request, which may end at any time.       *)
(* The wrapped source is an external collaborator: its Connect and         *)
(* ReadBatch answer with any outcome of the Async interface, and a read    *)
(* whose scope has ended answers with the scope's error.                   *)
(***************************************************************************)
EXTENDS Integers, Sequences, FiniteSets, TLC

\* ------------------------------------------------------------------ bounds
MaxBatches == 2      \* batches the source hands out over a run
MaxParts == 2        \* parts of a batch handed out by the source
MaxAttempts == 4     \* a delivery whose entry has this many attempts is not failed again

\* -------------------------------------------------------- program constants
BackoffThreshold == 2    \* resend.attempts > 2 consults the backoff

\* The backoff of an entry is an ExponentialBackOff of
\* github.com/cenkalti/backoff/v4 (line 10). Durations are in microseconds.
InitialInterval == 1000          \* line 26: time.Millisecond
MaxInterval == 1000000           \* line 27: time.Second
MultiplierNum == 11              \* line 28: Multiplier = 1.1 = 11 / 10
MultiplierDen == 10
MaxElapsedTime == 0              \* line 29: no limit on the elapsed time
\* What backoff.NewExponentialBackOff() (line 25) leaves in the fields that
\* lines 26-29 do not set: it calls Reset(), which copies the InitialInterval
\* of that moment, 500 ms, into the current interval, and its
\* RandomizationFactor is 0.5 = 1 / 2.
DefaultInitialInterval == 500000
RandomizationNum == 1
RandomizationDen == 2

Threads == 1..MaxBatches     \* slots of wrapped acknowledgment functions
Batches == 1..MaxBatches     \* identities of the source's batches (and of their ackFn)
ReaderId == 0                \* the reader, as a holder of msgsMut

\* ------------------------------------------------------------------ values
Nil == "nil"
ErrTypeClosed == "ErrTypeClosed"
ErrTimeout == "ErrTimeout"
ErrNotConnected == "ErrNotConnected"
CtxErr == "context canceled"
ErrPlain == "plain"          \* a processing failure that is no batch.WalkableError
ErrWalkable == "walkable"    \* a processing failure that is a batch.WalkableError

\* errors the source's Connect and ReadBatch answer with while their scope is live
SourceErrors == {ErrTypeClosed, ErrNotConnected}

\* asyncPreserverResend: boff counts the NextBackOff() calls made on the
\* entry's backoff, ackFn names the source batch whose function it is
NoResend == [boff |-> 0, attempts |-> 0, msg |-> << >>, ackFn |-> 0]

\* A queued entry is named, in the ghost variables, by the batch it retries
\* and the attempts it was queued with.
Key(m) == <<m.ackFn, m.attempts>>
NoKey == <<0, 0>>

VARIABLES
    resendMessages,   \* p.resendMessages: the queue of entries awaiting redelivery
    resendInterrupt,  \* p.resendInterrupt: "init" (func(){}), "req" (cancel of the
                      \* running request's scope), "old" (cancel of a returned request's scope)
    msgsMut,          \* p.msgsMut: the set of its holders
    pendingMessages,  \* p.pendingMessages
    inputClosed,      \* p.inputClosed
    pc,               \* the reader's position
    lMsgs,            \* ReadBatch's lMsgs: the queue length it inspected
    resend,           \* ReadBatch's resend: the popped entry
    tout,             \* ReadBatch's tout: the delay NextBackOff() answered, in microseconds
    err,              \* Connect's and ReadBatch's err
    callerDone,       \* the caller's scope of the running request has ended
    cancelled,        \* cancel() of the running request's scope was invoked by a failure report
    ret,              \* outcome of the last ReadBatch / Connect that returned
    cb,               \* the wrapped acknowledgment functions: one record per slot
    nextBatch,        \* number of batches the source has handed out
    firstSize,        \* number of parts of the first batch the source handed out
    acks,             \* ghost: per source batch, the invocations of its original ackFn: the
                      \* result passed, and whether the invoker was its most recent delivery
    fifo,             \* ghost: the entries failure reports appended and no read has popped, in order
    owing,            \* ghost: keys of the entries appended and not yet returned by a read, in order
    srcCalled,        \* ghost: the running request has called the source's ReadBatch
    intr,             \* ghost: key of the entry whose failure report cancelled the running request
    owed,             \* ghost: key of the entry that interrupted the last request, a fresh read
    failRet           \* ghost: what the last wrapped function invoked with a failure returned

vars == <<resendMessages, resendInterrupt, msgsMut, pendingMessages, inputClosed,
          pc, lMsgs, resend, tout, err, callerDone, cancelled, ret, cb, nextBatch,
          firstSize, acks, fifo, owing, srcCalled, intr, owed, failRet>>

shared == <<resendMessages, resendInterrupt, msgsMut, pendingMessages, inputClosed>>
locals == <<lMsgs, resend, tout, err, callerDone, cancelled>>
ghosts == <<firstSize, acks, fifo, owing, srcCalled, intr, owed, failRet>>

\* A slot of a wrapped acknowledgment function. m is the entry the closure
\* captured, single tells wrapSingleAckFn from wrapBatchAckFn, res is the
\* kind of result it was invoked with, tmp the queue value read by append.
\* Ghost fields, kept while a failure report runs: arg is the result the
\* function was invoked with and was the batch of the delivery.
FreeCb == [pc |-> "free", m |-> NoResend, single |-> TRUE, res |-> Nil, tmp |-> << >>,
           arg |-> [kind |-> Nil, n |-> 0, walk |-> << >>], was |-> << >>]

\* outcome of a returned call: for a batch, the entry delivered. Ghost fields:
\* owed is the value of owed when the call returned, inOrder tells that a
\* redelivered entry was the oldest one owing, callerDone and cancelled are
\* the state of the scope of a request that returned an error
NoRet == [op |-> "none", kind |-> "none", m |-> NoResend, owed |-> NoKey,
          inOrder |-> TRUE, callerDone |-> FALSE, cancelled |-> FALSE]

Init ==
    /\ resendMessages = << >>
    /\ resendInterrupt = "init"
    /\ msgsMut = {}
    /\ pendingMessages = 0
    /\ inputClosed = 0
    /\ pc = "idle"
    /\ lMsgs = 0
    /\ resend = NoResend
    /\ tout = 0
    /\ err = Nil
    /\ callerDone = FALSE
    /\ cancelled = FALSE
    /\ ret = NoRet
    /\ cb = [t \in Threads |-> FreeCb]
    /\ nextBatch = 0
    /\ firstSize = 0
    /\ acks = [b \in Batches |-> << >>]
    /\ fifo = << >>
    /\ owing = << >>
    /\ srcCalled = FALSE
    /\ intr = NoKey
    /\ owed = NoKey
    /\ failRet = "none"

\* ----------------------------------------------------------------- helpers
\* faulty variant of CtxDone, for sensitivity checks: the scope counts as ended while it is live
CtxDoneWhilePending == callerDone \/ cancelled \/ pendingMessages > 0

\* the scope of the running request has ended: ctx of line 140 is derived
\* from the caller's scope and is also ended by its own cancel()
CtxDone == callerDone \/ cancelled

\* faulty variant of CanLock, for sensitivity checks: the mutex excludes nobody
CanLockAlways(holders) == TRUE

\* p.msgsMut.Lock() succeeds only while nobody holds the mutex
CanLock(holders) == holders = {}

\* faulty variant of HasResend, for sensitivity checks: a queue of one entry counts as empty
HasResendOffByOne(n) == n > 1

\* line 146: lMsgs > 0
HasResend(n) == n > 0

\* faulty variant of NeedsBackoff, for sensitivity checks: the second attempt
\* already consults the backoff
NeedsBackoffEarly(attempts) == attempts >= BackoffThreshold

\* line 156: resend.attempts > 2
NeedsBackoff(attempts) == attempts > BackoffThreshold

\* faulty variant of SuppressClosed, for sensitivity checks: the end of the
\* stream is never suppressed
SuppressClosedNever(e, pending) == FALSE

\* faulty variant of SuppressClosed, for sensitivity checks: the counter is not consulted
SuppressClosedAlways(e, pending) == e = ErrTypeClosed

\* line 70: errors.Is(err, ErrTypeClosed) && pendingMessages > 0
SuppressClosed(e, pending) == e = ErrTypeClosed /\ pending > 0

\* faulty variant of InputClosed, for sensitivity checks: the flag is not consulted
InputClosedNever(flag) == FALSE

\* line 177: atomic.LoadInt32(&p.inputClosed) > 0
InputClosed(flag) == flag > 0

\* faulty variant of Cancels, for sensitivity checks: the interrupt wakes nobody
CancelsNever(h) == FALSE

\* lines 114 and 128: p.resendInterrupt() ends the scope of the running
\* request when it is the cancel() that request installed at line 169
Cancels(h) == h = "req"

\* line 185: errors.Is(err, ErrTypeClosed) && pendingMessages > 0
DrainNeeded(e, pending) == e = ErrTypeClosed /\ pending > 0

\* faulty variant of Drained, for sensitivity checks: one batch in flight counts as none
DrainedOffByOne(pending) == pending <= 1

\* line 195: pendingMessages <= 0
Drained(pending) == pending <= 0

\* faulty variant of IsFailure, for sensitivity checks: every result is taken for a success
IsFailureNever(res) == FALSE

\* lines 88 and 125: res != nil
IsFailure(res) == res # Nil

\* faulty variant of Enqueue, for sensitivity checks: the entry is put at the front
EnqueueFront(q, m) == <<m>> \o q

\* lines 113 and 127: append(p.resendMessages, m)
Enqueue(q, m) == Append(q, m)

\* The current interval of an ExponentialBackOff made by newResendMsg after
\* k calls of NextBackOff(): Reset() in the constructor set it before line
\* 26 changed InitialInterval, and each call multiplies it by Multiplier up
\* to MaxInterval.
RECURSIVE CurrentInterval(_)
CurrentInterval(k) ==
    IF k = 0 THEN DefaultInitialInterval
    ELSE LET cur == CurrentInterval(k - 1)
         IN  IF cur * MultiplierNum >= MaxInterval * MultiplierDen
             THEN MaxInterval
             ELSE (cur * MultiplierNum) \div MultiplierDen

\* line 158: the delays NextBackOff() may answer at its call number k + 1: a
\* random duration within RandomizationFactor of the current interval (its
\* two ends and its middle stand for the range); never Stop, as
\* MaxElapsedTime is 0
NextBackOff(k) ==
    LET cur == CurrentInterval(k)
        delta == (cur * RandomizationNum) \div RandomizationDen
    IN  {cur - delta, cur, cur + delta}

\* faulty variant of Increment, for sensitivity checks: a fresh batch is not counted
IncrementNot(n) == n

\* line 203: atomic.AddInt64(&p.pendingMessages, 1)
Increment(n) == n + 1

\* faulty variant of Decrement, for sensitivity checks: a success is not counted
DecrementNot(n) == n

\* lines 118 and 132: atomic.AddInt64(&p.pendingMessages, -1)
Decrement(n) == n - 1

\* newResendMsg: a fresh entry for a batch of the source
newResendMsg(msg, ackFn) ==
    [boff |-> 0, attempts |-> 0, msg |-> msg, ackFn |-> ackFn]

\* A batch.WalkableError reported for a delivery of len parts. WalkParts
\* visits the parts of the error's own batch in order: each carries the tag
\* of a part of the delivery (sortGroup.GetIndex answers its index, tag) or
\* cannot be linked back (GetIndex answers -1, here tag = 0), and has an
\* error or not. The interface, not this file, decides the walk and the
\* count, so every walk of len parts is possible.
Walks(len) == [1..len -> [tag : 0..len, e : BOOLEAN]]

\* what walkable.IndexedErrors() may answer; line 90 only compares it with
\* the number of parts, so the answers above len stand for len
IndexedErrors(len) == 0..len

\* the failure results a caller may report for a delivery of len parts
Failures(len) ==
    {[kind |-> ErrPlain, n |-> 0, walk |-> << >>]} \cup
    {[kind |-> ErrWalkable, n |-> k, walk |-> w] : k \in IndexedErrors(len), w \in Walks(len)}

\* faulty variant of WalkParts, for sensitivity checks: an errored part that
\* cannot be linked back is skipped
RECURSIVE WalkPartsSkipUnlinked(_, _, _, _)
WalkPartsSkipUnlinked(msg, walk, i, acc) ==
    IF i > Len(walk) THEN acc
    ELSE IF walk[i].e /\ walk[i].tag >= 1
         THEN WalkPartsSkipUnlinked(msg, walk, i + 1, Append(acc, msg[walk[i].tag]))
         ELSE WalkPartsSkipUnlinked(msg, walk, i + 1, acc)

\* lines 92-105: WalkParts with the callback of wrapBatchAckFn; acc is
\* resendMsg, i the next part to visit
RECURSIVE WalkParts(_, _, _, _)
WalkParts(msg, walk, i, acc) ==
    IF i > Len(walk) THEN acc
    ELSE IF ~walk[i].e THEN WalkParts(msg, walk, i + 1, acc)
    ELSE IF walk[i].tag >= 1
         THEN WalkParts(msg, walk, i + 1, Append(acc, msg[walk[i].tag]))
         ELSE msg

\* faulty variant of BatchResendMsg, for sensitivity checks: the whole batch
\* is retried whatever the result
BatchResendWhole(msg, res) == msg

\* lines 89-110 of wrapBatchAckFn: the batch to retry
BatchResendMsg(msg, res) ==
    IF res.kind = ErrWalkable /\ res.n < Len(msg)
    THEN LET sub == WalkParts(msg, res.walk, 1, << >>)
         IN  IF Len(sub) = 0 THEN msg ELSE sub
    ELSE msg

\* what the wrapped function of a delivery queues on failure: wrapSingleAckFn
\* queues m as captured, wrapBatchAckFn replaces m.msg first
ResendMsg(single, msg, res) == IF single THEN msg ELSE BatchResendMsg(msg, res)

\* the lowest free slot for a new wrapped acknowledgment function
FreeSlots == {t \in Threads : cb[t].pc = "free"}
FreeSlot == CHOOSE t \in FreeSlots : \A u \in FreeSlots : t <= u

\* the sequence q without its first element equal to m
RECURSIVE Without(_, _)
Without(q, m) ==
    IF q = << >> THEN << >>
    ELSE IF Head(q) = m THEN Tail(q)
    ELSE <<Head(q)>> \o Without(Tail(q), m)

\* the sequence q without its head
Rest(q) == IF q = << >> THEN << >> ELSE Tail(q)

\* defer cancel() at line 141: the scope of a returning request is ended, so a
\* handle installed by it no longer reaches a running request
Deferred(h) == IF h = "req" THEN "old" ELSE h

\* the locals of ReadBatch and its scope end with the request
EndRequest ==
    /\ pc' = "idle"
    /\ lMsgs' = 0
    /\ resend' = NoResend
    /\ tout' = 0
    /\ err' = Nil
    /\ callerDone' = FALSE
    /\ cancelled' = FALSE
    /\ srcCalled' = FALSE
    /\ intr' = NoKey
    /\ resendInterrupt' = Deferred(resendInterrupt)

\* wrapAckFn (lines 77-82) and the return at lines 167 and 205: hand the batch
\* of m and a wrapped acknowledgment function to the caller; queued tells a
\* redelivery from a fresh batch
Deliver(m, queued) ==
    /\ FreeSlots # {}
    /\ cb' = [cb EXCEPT ![FreeSlot] =
                [FreeCb EXCEPT !.pc = "held", !.m = m, !.single = (Len(m.msg) = 1)]]
    /\ ret' = [op |-> "ReadBatch", kind |-> "batch", m |-> m, owed |-> owed,
               inOrder |-> (queued =>
                              (owing # << >> /\ Head(owing) = <<m.ackFn, m.attempts - 1>>)),
               callerDone |-> FALSE, cancelled |-> FALSE]
    /\ owing' = IF queued THEN Without(owing, <<m.ackFn, m.attempts - 1>>) ELSE owing
    /\ owed' = NoKey
    /\ EndRequest

\* ReadBatch returns no batch and the error e; interrupted tells that the
\* request returns from the source's read with its scope cancelled by a
\* failure report
ReturnErr(e, interrupted) ==
    /\ ret' = [op |-> "ReadBatch", kind |-> e, m |-> NoResend, owed |-> owed,
               inOrder |-> TRUE, callerDone |-> callerDone, cancelled |-> cancelled]
    /\ owed' = IF interrupted THEN intr ELSE NoKey
    /\ EndRequest

\* ------------------------------------------------------------------ Connect
\* line 66: the source's Connect answers
Connect_Call ==
    /\ pc = "idle"
    /\ \E e \in {Nil} \cup SourceErrors : err' = e
    /\ pc' = "connect"
    /\ ret' = NoRet
    /\ UNCHANGED <<shared, lMsgs, resend, tout, callerDone, cancelled, cb, nextBatch, ghosts>>

\* lines 70 and 74 when the condition is false: the source's answer is
\* returned as it is
Connect_Return ==
    /\ pc = "connect"
    /\ ~SuppressClosed(err, pendingMessages)
    /\ ret' = [NoRet EXCEPT !.op = "Connect", !.kind = err]
    /\ err' = Nil
    /\ pc' = "idle"
    /\ UNCHANGED <<shared, lMsgs, resend, tout, callerDone, cancelled, cb, nextBatch, ghosts>>

\* lines 70-74 when the condition is true: inputClosed is set and nil returned
Connect_Suppress ==
    /\ pc = "connect"
    /\ SuppressClosed(err, pendingMessages)
    /\ inputClosed' = 1
    /\ ret' = [NoRet EXCEPT !.op = "Connect", !.kind = Nil]
    /\ err' = Nil
    /\ pc' = "idle"
    /\ UNCHANGED <<resendMessages, resendInterrupt, msgsMut, pendingMessages,
                   lMsgs, resend, tout, callerDone, cancelled, cb, nextBatch, ghosts>>

\* ---------------------------------------------------------------- ReadBatch
\* lines 138-145: a request begins with a live scope and takes the mutex
RB_Begin ==
    /\ pc = "idle"
    /\ CanLock(msgsMut)
    /\ msgsMut' = msgsMut \cup {ReaderId}
    /\ pc' = "inspect"
    /\ ret' = NoRet
    /\ UNCHANGED <<resendMessages, resendInterrupt, pendingMessages, inputClosed,
                   locals, cb, nextBatch, ghosts>>

\* lines 146-156 and 166-167: the queue is not empty; its front entry is
\* popped, the mutex released, attempts incremented and, up to the second
\* attempt, the entry redelivered at once
RB_PopNow ==
    /\ pc = "inspect"
    /\ HasResend(Len(resendMessages))
    /\ ~NeedsBackoff(Head(resendMessages).attempts + 1)
    /\ resendMessages' = Tail(resendMessages)
    /\ fifo' = Rest(fifo)
    /\ msgsMut' = msgsMut \ {ReaderId}
    /\ Deliver([Head(resendMessages) EXCEPT !.attempts = @ + 1], TRUE)
    /\ UNCHANGED <<firstSize, pendingMessages, inputClosed, nextBatch, acks, failRet>>

\* lines 146-159: the same past the second attempt: NextBackOff() is
\* consulted and the request sleeps for the delay it answers (which is
\* above 0 for the backoff of newResendMsg)
RB_PopBackoff ==
    /\ pc = "inspect"
    /\ HasResend(Len(resendMessages))
    /\ NeedsBackoff(Head(resendMessages).attempts + 1)
    /\ lMsgs' = Len(resendMessages)
    /\ resend' = [Head(resendMessages) EXCEPT !.attempts = @ + 1, !.boff = @ + 1]
    /\ tout' \in NextBackOff(Head(resendMessages).boff)
    /\ tout' > 0
    /\ resendMessages' = Tail(resendMessages)
    /\ fifo' = Rest(fifo)
    /\ msgsMut' = msgsMut \ {ReaderId}
    /\ pc' = "sleep"
    /\ UNCHANGED <<firstSize, resendInterrupt, pendingMessages, inputClosed, err, callerDone,
                   cancelled, ret, cb, nextBatch, acks, owing, srcCalled, intr, owed,
                   failRet>>

\* lines 160 and 166-167: the sleep ends and the entry is redelivered
RB_SleepDone ==
    /\ pc = "sleep"
    /\ Deliver(resend, TRUE)
    /\ UNCHANGED <<firstSize, resendMessages, msgsMut, pendingMessages, inputClosed, nextBatch,
                   acks, fifo, failRet>>

\* lines 161-162: the scope ends during the sleep; ctx.Err() is returned
RB_SleepCancel ==
    /\ pc = "sleep"
    /\ CtxDone
    /\ ReturnErr(CtxErr, FALSE)
    /\ UNCHANGED <<firstSize, resendMessages, msgsMut, pendingMessages, inputClosed, cb, nextBatch,
                   acks, fifo, owing, failRet>>

\* line 146 when the queue is empty
RB_NoResend ==
    /\ pc = "inspect"
    /\ ~HasResend(Len(resendMessages))
    /\ lMsgs' = Len(resendMessages)
    /\ pc' = "install"
    /\ UNCHANGED <<shared, resend, tout, err, callerDone, cancelled, ret, cb, nextBatch, ghosts>>

\* lines 169-170: the request's cancel() is installed as the interrupt and
\* the mutex released
RB_Install ==
    /\ pc = "install"
    /\ resendInterrupt' = "req"
    /\ msgsMut' = msgsMut \ {ReaderId}
    /\ pc' = "fresh"
    /\ UNCHANGED <<resendMessages, pendingMessages, inputClosed, locals, ret, cb,
                   nextBatch, ghosts>>

\* lines 177-178 and 182-185: inputClosed is set, the source is not called,
\* and batches are in flight: wait for them
RB_ClosedDrain ==
    /\ pc = "fresh"
    /\ InputClosed(inputClosed)
    /\ DrainNeeded(ErrTypeClosed, pendingMessages)
    /\ err' = ErrTypeClosed
    /\ pc' = "drain"
    /\ UNCHANGED <<shared, lMsgs, resend, tout, callerDone, cancelled, ret, cb, nextBatch, ghosts>>

\* lines 177-178, 182-185 and 201: inputClosed is set and no batch is in
\* flight: closed is returned
RB_ClosedReturn ==
    /\ pc = "fresh"
    /\ InputClosed(inputClosed)
    /\ ~DrainNeeded(ErrTypeClosed, pendingMessages)
    /\ ReturnErr(ErrTypeClosed, FALSE)
    /\ UNCHANGED <<firstSize, resendMessages, msgsMut, pendingMessages, inputClosed, cb, nextBatch,
                   acks, fifo, owing, failRet>>

\* lines 177-180: the source's ReadBatch is called with the request's scope
RB_CallSource ==
    /\ pc = "fresh"
    /\ ~InputClosed(inputClosed)
    /\ srcCalled' = TRUE
    /\ pc' = "srcRead"
    /\ UNCHANGED <<firstSize, shared, locals, ret, cb, nextBatch, acks, fifo, owing, intr, owed,
                   failRet>>

\* The sizes of the batches the source hands out over a run: up to
\* MaxBatches batches of one part each, or a single batch of up to MaxParts
\* parts. first is the size of the first batch handed out (0 before it).
BatchSizes(handed, first) ==
    IF handed = 0 THEN 1..MaxParts
    ELSE IF first = 1 /\ handed < MaxBatches THEN {1}
    ELSE {}

\* lines 180 and 203-205: the source answers with a batch of n parts
RB_SourceBatch ==
    /\ pc = "srcRead"
    /\ ~CtxDone
    /\ \E n \in BatchSizes(nextBatch, firstSize) :
        /\ Deliver(newResendMsg([i \in 1..n |-> i], nextBatch + 1), FALSE)
        /\ firstSize' = IF nextBatch = 0 THEN n ELSE firstSize
    /\ nextBatch' = nextBatch + 1
    /\ pendingMessages' = Increment(pendingMessages)
    /\ UNCHANGED <<resendMessages, msgsMut, inputClosed, acks, fifo, failRet>>

\* lines 180-185: the source answers with the end of the stream while
\* batches are in flight: wait for them
RB_SourceClosedDrain ==
    /\ pc = "srcRead"
    /\ ~CtxDone
    /\ DrainNeeded(ErrTypeClosed, pendingMessages)
    /\ err' = ErrTypeClosed
    /\ pc' = "drain"
    /\ UNCHANGED <<shared, lMsgs, resend, tout, callerDone, cancelled, ret, cb, nextBatch, ghosts>>

\* lines 180-185 and 201: the source answers with an error, the scope's once
\* the scope has ended and one of its own otherwise, which is returned as it is
RB_SourceErr ==
    /\ pc = "srcRead"
    /\ \E e \in (IF CtxDone THEN {CtxErr} ELSE SourceErrors) :
        /\ ~DrainNeeded(e, pendingMessages)
        /\ ReturnErr(e, cancelled)
    /\ UNCHANGED <<firstSize, resendMessages, msgsMut, pendingMessages, inputClosed, cb, nextBatch,
                   acks, fifo, owing, failRet>>

\* lines 192-193: the scope ends during the drain wait
RB_DrainTimeout ==
    /\ pc = "drain"
    /\ CtxDone
    /\ ReturnErr(ErrTimeout, FALSE)
    /\ UNCHANGED <<firstSize, resendMessages, msgsMut, pendingMessages, inputClosed, cb, nextBatch,
                   acks, fifo, owing, failRet>>

\* lines 194-197: a poll finds no batch in flight (a poll that finds some
\* loops and changes nothing)
RB_DrainPoll ==
    /\ pc = "drain"
    /\ Drained(pendingMessages)
    /\ ReturnErr(ErrTypeClosed, FALSE)
    /\ UNCHANGED <<firstSize, resendMessages, msgsMut, pendingMessages, inputClosed, cb, nextBatch,
                   acks, fifo, owing, failRet>>

\* the caller's scope ends while the request is blocked in the backoff sleep,
\* in the source's read or in the drain wait (the only places that read it)
CallerCancel ==
    /\ pc \in {"sleep", "srcRead", "drain"}
    /\ ~callerDone
    /\ callerDone' = TRUE
    /\ UNCHANGED <<shared, pc, lMsgs, resend, tout, err, cancelled, ret, cb, nextBatch, ghosts>>

\* ------------------------------------------- wrapped acknowledgment functions
Success == [kind |-> Nil, n |-> 0, walk |-> << >>]

\* the results the caller may invoke the wrapped function of slot t with
Results(t) == {Success} \cup Failures(Len(cb[t].m.msg))

\* The delivery of slot t is the most recent one of its batch: no other
\* wrapped function, no queued entry and no popped entry is of that batch.
MostRecent(t) ==
    /\ \A u \in Threads \ {t} : cb[u].m.ackFn # cb[t].m.ackFn
    /\ \A i \in DOMAIN resendMessages : resendMessages[i].ackFn # cb[t].m.ackFn
    /\ resend.ackFn # cb[t].m.ackFn

\* lines 118 and 132: invoked with success, the counter is decremented
Ack_Success(t) ==
    /\ cb[t].pc = "held"
    /\ \E res \in Results(t) :
        /\ ~IsFailure(res.kind)
        /\ cb' = [cb EXCEPT ![t].pc = "ackFn", ![t].res = res.kind]
    /\ pendingMessages' = Decrement(pendingMessages)
    /\ UNCHANGED <<resendMessages, resendInterrupt, msgsMut, inputClosed, pc, locals,
                   ret, nextBatch, ghosts>>

\* lines 119 and 133: the original function is invoked with the result, and
\* what it answers is returned
Ack_Forward(t) ==
    /\ cb[t].pc = "ackFn"
    /\ acks' = [acks EXCEPT ![cb[t].m.ackFn] =
                    Append(@, [res |-> cb[t].res, latest |-> MostRecent(t)])]
    /\ cb' = [cb EXCEPT ![t] = FreeCb]
    /\ UNCHANGED <<firstSize, shared, pc, locals, ret, nextBatch, fifo, owing, srcCalled, intr,
                   owed, failRet>>

\* lines 88-113 and 125-127: invoked with a failure, the batch to retry is
\* computed, the mutex taken and the queue read by append
Ack_Failure(t) ==
    /\ cb[t].pc = "held"
    /\ cb[t].m.attempts < MaxAttempts
    /\ CanLock(msgsMut)
    /\ \E res \in Results(t) :
        /\ IsFailure(res.kind)
        /\ cb' = [cb EXCEPT ![t].pc = "append", ![t].res = res.kind,
                            ![t].m.msg = ResendMsg(cb[t].single, cb[t].m.msg, res),
                            ![t].tmp = resendMessages,
                            ![t].arg = res, ![t].was = cb[t].m.msg]
    /\ msgsMut' = msgsMut \cup {t}
    /\ UNCHANGED <<resendMessages, resendInterrupt, pendingMessages, inputClosed, pc,
                   locals, ret, nextBatch, ghosts>>

\* lines 113 and 127: append stores the queue with m at its back
Ack_Append(t) ==
    /\ cb[t].pc = "append"
    /\ resendMessages' = Enqueue(cb[t].tmp, cb[t].m)
    /\ fifo' = Append(fifo, cb[t].m)
    /\ owing' = Append(owing, Key(cb[t].m))
    /\ cb' = [cb EXCEPT ![t].pc = "interrupt", ![t].tmp = << >>]
    /\ UNCHANGED <<firstSize, resendInterrupt, msgsMut, pendingMessages, inputClosed, pc, locals,
                   ret, nextBatch, acks, srcCalled, intr, owed, failRet>>

\* lines 114-116 and 128-130: the interrupt is invoked, the mutex released
\* and nil returned
Ack_Interrupt(t) ==
    /\ cb[t].pc = "interrupt"
    /\ IF Cancels(resendInterrupt) /\ ~cancelled
       THEN /\ cancelled' = TRUE
            /\ intr' = Key(cb[t].m)
       ELSE UNCHANGED <<cancelled, intr>>
    /\ msgsMut' = msgsMut \ {t}
    /\ failRet' = Nil
    /\ cb' = [cb EXCEPT ![t] = FreeCb]
    /\ UNCHANGED <<firstSize, resendMessages, resendInterrupt, pendingMessages, inputClosed, pc,
                   lMsgs, resend, tout, err, callerDone, ret, nextBatch, acks, fifo, owing,
                   srcCalled, owed>>

\* ------------------------------------------------------------ specification
Next ==
    \/ Connect_Call
    \/ Connect_Return
    \/ Connect_Suppress
    \/ RB_Begin
    \/ RB_PopNow
    \/ RB_PopBackoff
    \/ RB_SleepDone
    \/ RB_SleepCancel
    \/ RB_NoResend
    \/ RB_Install
    \/ RB_ClosedDrain
    \/ RB_ClosedReturn
    \/ RB_CallSource
    \/ RB_SourceBatch
    \/ RB_SourceClosedDrain
    \/ RB_SourceErr
    \/ RB_DrainTimeout
    \/ RB_DrainPoll
    \/ CallerCancel
    \/ \E t \in Threads : Ack_Success(t)
    \/ \E t \in Threads : Ack_Forward(t)
    \/ \E t \in Threads : Ack_Failure(t)
    \/ \E t \in Threads : Ack_Append(t)
    \/ \E t \in Threads : Ack_Interrupt(t)

Spec == Init /\ [][Next]_vars

\* the source's ReadBatch reports the end of the stream
SourceReportsClosed ==
    \/ RB_SourceClosedDrain
    \/ RB_SourceErr /\ ret'.kind = ErrTypeClosed

\* The caller keeps issuing ReadBatch requests, the steps of a request and of
\* a wrapped function are scheduled, a sleep ends when its delay has elapsed,
\* the source answers every read and, asked again and again, reports the end
\* of its stream, a drain wait whose counter is at 0 gets its poll before
\* its scope ends, and the caller invokes every wrapped function it holds,
\* in the end with success. When the caller's scope ends is left open.
Fairness ==
    /\ SF_vars(RB_Begin)
    /\ WF_vars(Connect_Return \/ Connect_Suppress)
    /\ WF_vars(RB_PopNow \/ RB_PopBackoff \/ RB_NoResend)
    /\ WF_vars(RB_Install)
    /\ WF_vars(RB_ClosedDrain \/ RB_ClosedReturn \/ RB_CallSource)
    /\ WF_vars(RB_SleepDone)
    /\ WF_vars(RB_SourceBatch \/ RB_SourceClosedDrain \/ RB_SourceErr)
    /\ SF_vars(SourceReportsClosed)
    /\ SF_vars(RB_DrainPoll)
    /\ WF_vars(RB_DrainTimeout)
    /\ \A t \in Threads :
        /\ WF_vars(Ack_Success(t))
        /\ WF_vars(Ack_Forward(t))
        /\ WF_vars(Ack_Append(t))
        /\ WF_vars(Ack_Interrupt(t))

LiveSpec == Init /\ [][Next]_vars /\ Fairness

\* ------------------------------------------------------------------ claims
Acked(b) == \E i \in DOMAIN acks[b] : acks[b][i].res = Nil
HeldByCaller(b) == \E t \in Threads : cb[t].pc # "free" /\ cb[t].m.ackFn = b
Queued(b) == \E i \in DOMAIN resendMessages : resendMessages[i].ackFn = b
InRequest(b) == pc = "sleep" /\ resend.ackFn = b

\* C1: every batch obtained from the source whose original function has not
\* been invoked with success is held by the caller with its wrapped function,
\* or is in the queue, or is in the hands of a running ReadBatch request.
C1_NoLoss ==
    \A b \in 1..nextBatch : Acked(b) \/ HeldByCaller(b) \/ Queued(b) \/ InRequest(b)

\* C2: the original function of a batch is invoked at most once, only with
\* success, and only by the wrapped function of the batch's most recent
\* delivery, itself invoked with success.
C2_AckOnce ==
    /\ \A b \in Batches :
        /\ Len(acks[b]) <= 1
        /\ \A i \in DOMAIN acks[b] : acks[b][i].res = Nil /\ acks[b][i].latest
    /\ \A t \in Threads : cb[t].pc = "ackFn" => cb[t].res = Nil

\* C2 witness: the one batch read was reported failed, redelivered and then
\* acknowledged: its original function has been invoked.
C2_Witness ==
    nextBatch = 1 /\ failRet = Nil /\ Len(acks[1]) = 1 /\ pendingMessages = 0

\* the steps of the wrapped function of slot t invoked with a failure
FailureInvoked(t) == cb[t].pc = "held" /\ cb'[t].pc = "append"
FailureAppends(t) == cb[t].pc = "append" /\ cb'[t].pc = "interrupt"
FailureReturns(t) == cb[t].pc = "interrupt" /\ cb'[t].pc = "free"

\* C3: a wrapped function invoked with a failure appends exactly one entry,
\* carrying the delivery's original function, attempts and backoff, to the
\* back of the queue, returns nil, never invokes the original function and
\* leaves pendingMessages and inputClosed as they are; no ReadBatch returns
\* the failure.
C3_FailureAbsorbed ==
    /\ [][\A t \in Threads :
            /\ FailureInvoked(t) =>
                /\ cb'[t].m = [cb[t].m EXCEPT !.msg = cb'[t].m.msg]
                /\ UNCHANGED <<resendMessages, pendingMessages, inputClosed, acks>>
            /\ FailureAppends(t) =>
                /\ resendMessages' = Append(resendMessages, cb[t].m)
                /\ UNCHANGED <<pendingMessages, inputClosed, acks>>
            /\ FailureReturns(t) =>
                /\ failRet' = Nil
                /\ UNCHANGED <<resendMessages, pendingMessages, inputClosed, acks>>]_vars
    /\ [](ret.kind \notin {ErrPlain, ErrWalkable})

\* C3 witness: a failure report has returned, its entry is queued behind
\* another, and the batch is still counted in flight and unacknowledged.
C3_Witness ==
    /\ failRet = Nil
    /\ Len(resendMessages) = 2
    /\ pendingMessages = 2
    /\ \A b \in Batches : acks[b] = << >>

\* C4: an entry returned by ReadBatch for redelivery is the oldest entry
\* appended and not yet returned: no entry queued before it is still waiting.
C4_FifoRedelivery ==
    (ret.op = "ReadBatch" /\ ret.kind = "batch") => ret.inOrder

\* C5: the source's ReadBatch is called only by a request that found the
\* queue empty; a request that finds an entry pops the front one and returns
\* it, or the scope's error, without calling the source.
C5_RetriesFirst ==
    /\ [](srcCalled => (lMsgs = 0 /\ resend = NoResend))
    /\ [](pc \in {"install", "fresh", "srcRead", "drain"} => lMsgs = 0)
    /\ [](pc = "sleep" => (lMsgs > 0 /\ ~srcCalled))
    /\ [][(pc = "inspect" /\ pc' # "inspect" /\ Len(resendMessages) > 0) =>
            /\ resendMessages' = Tail(resendMessages)
            /\ ~srcCalled'
            /\ nextBatch' = nextBatch
            /\ \/ /\ pc' = "idle"
                  /\ ret'.kind = "batch"
                  /\ ret'.m = [Head(resendMessages) EXCEPT !.attempts = @ + 1]
               \/ /\ pc' = "sleep"
                  /\ Key(resend') = <<Head(resendMessages).ackFn,
                                      Head(resendMessages).attempts + 1>>]_vars
    /\ [][(pc = "sleep" /\ pc' # "sleep") =>
            /\ pc' = "idle"
            /\ nextBatch' = nextBatch
            /\ \/ ret'.kind = "batch" /\ ret'.m = resend
               \/ ret'.kind = CtxErr /\ ret'.m = NoResend]_vars

\* C5 witness: a request returned a redelivery while the source still had
\* batches to hand out.
C5_Witness ==
    /\ ret.op = "ReadBatch" /\ ret.kind = "batch" /\ ret.m.attempts >= 1
    /\ nextBatch = 1 /\ firstSize = 1

\* no delivered batch awaits a successful acknowledgment
NoneAwaiting == \A t \in Threads : cb[t].pc \in {"free", "ackFn"}

\* C6: ReadBatch returns closed only with pendingMessages at 0, when no
\* delivered batch awaits its acknowledgment and the queue is empty.
C6_DrainSuppression ==
    (ret.op = "ReadBatch" /\ ret.kind = ErrTypeClosed) =>
        /\ pendingMessages = 0
        /\ resendMessages = << >>
        /\ NoneAwaiting

\* C6 witness: closed is returned, with inputClosed set, after every batch
\* read was acknowledged.
C6_Witness ==
    /\ ret.op = "ReadBatch" /\ ret.kind = ErrTypeClosed
    /\ inputClosed = 1
    /\ nextBatch = MaxBatches
    /\ \A b \in Batches : Acked(b)

\* C7: Connect returns nil and sets inputClosed when the source answers
\* closed while pendingMessages > 0; in every other case it returns the
\* source's answer and leaves inputClosed as it is; it never changes the
\* queue or pendingMessages.
C7_ConnectSuppression ==
    /\ [][(pc = "idle" /\ pc' = "connect") => UNCHANGED shared]_vars
    /\ [][(pc = "connect" /\ pc' = "idle") =>
            /\ UNCHANGED <<resendMessages, pendingMessages>>
            /\ IF err = ErrTypeClosed /\ pendingMessages > 0
               THEN ret'.kind = Nil /\ inputClosed' = 1
               ELSE ret'.kind = err /\ inputClosed' = inputClosed]_vars

\* C7 witness: Connect has returned nil for a source that answered closed,
\* with a batch in flight.
C7_Witness ==
    ret.op = "Connect" /\ ret.kind = Nil /\ inputClosed = 1 /\ pendingMessages > 0

\* C8 as stated: a request waiting for the drain returns ErrTimeout only
\* when the caller's own scope has ended.
C8_TimeoutOnlyCaller ==
    (ret.op = "ReadBatch" /\ ret.kind = ErrTimeout) => ret.callerDone

\* C8 as amended: a request waiting for the drain returns ErrTimeout only
\* when its scope has ended, by the caller's scope ending or by a failure
\* report invoking the interrupt; it returns closed only when it finds
\* pendingMessages <= 0; otherwise it keeps waiting. Only a failure report
\* that finds the request's cancel() installed cancels the scope.
C8_DrainTimeout ==
    /\ [][(pc = "drain" /\ pc' # "drain") =>
            /\ pc' = "idle"
            /\ \/ ret'.kind = ErrTimeout /\ (callerDone \/ cancelled)
               \/ ret'.kind = ErrTypeClosed /\ pendingMessages <= 0]_vars
    /\ [][(~cancelled /\ cancelled') =>
            \E t \in Threads : FailureReturns(t) /\ resendInterrupt = "req"]_vars

\* C8 witness: a request waiting for the drain has returned ErrTimeout
\* while the caller's scope was live: a failure report cancelled its scope.
C8_Witness ==
    /\ ret.op = "ReadBatch" /\ ret.kind = ErrTimeout
    /\ ret.cancelled /\ ~ret.callerDone

\* C9: a fresh read interrupted by a failure report returns the scope's
\* error and no batch; the entry of that report stays at the front of the
\* queue and the next ReadBatch request returns it.
C9_InterruptedRead ==
    /\ (ret.op = "ReadBatch" /\ owed # NoKey) =>
            (ret.kind = CtxErr /\ ret.m = NoResend)
    /\ (owed # NoKey /\ pc \in {"idle", "connect", "inspect"}) =>
            (resendMessages # << >> /\ Key(Head(resendMessages)) = owed)
    /\ (ret.op = "ReadBatch" /\ ret.owed # NoKey) =>
            (ret.kind = "batch" /\ <<ret.m.ackFn, ret.m.attempts - 1>> = ret.owed)

\* C10: under every interleaving the queue holds exactly the entries that
\* failure reports appended and no read has popped, each once, in the order
\* of the reports.
C10_ConcurrentFailures ==
    /\ resendMessages = fifo
    /\ \A i, j \in DOMAIN resendMessages :
            Key(resendMessages[i]) = Key(resendMessages[j]) => i = j

\* C10 witness: two failure reports arrived while a request was in the
\* source's read; both entries are queued and the request's scope is cancelled.
C10_Witness ==
    /\ pc = "srcRead" /\ cancelled
    /\ Len(resendMessages) = 2
    /\ \A t \in Threads : cb[t].pc = "free"

\* ------------------------------------------------- the batch of a retry entry
\* a failure report of slot t has computed the batch to retry
Reporting(t) == cb[t].pc \in {"append", "interrupt"}

\* the report of slot t is a batch.WalkableError for a batch of several
\* parts that counts fewer part errors than the batch has parts
Structured(t) ==
    /\ Reporting(t)
    /\ Len(cb[t].was) > 1
    /\ cb[t].arg.kind = ErrWalkable
    /\ cb[t].arg.n < Len(cb[t].was)

\* the parts the walk reports with an error, in the order of the walk
Errored(walk) == SelectSeq(walk, LAMBDA x : x.e)

\* every part the walk reports with an error is linked to a part of the delivery
AllLinked(walk) == \A i \in DOMAIN walk : walk[i].e => walk[i].tag >= 1

\* the parts of the delivery was that the errored parts of the walk are
\* linked to, in the order of the walk
ErroredParts(was, walk) ==
    [k \in 1..Len(Errored(walk)) |-> was[Errored(walk)[k].tag]]

\* the entry a report of slot t has appended is at the back of the queue and
\* holds the batch the report computed
Appended(t) ==
    cb[t].pc = "interrupt" =>
        /\ resendMessages # << >>
        /\ resendMessages[Len(resendMessages)] = cb[t].m

\* C11 as stated: a structured error with fewer part errors than parts, all
\* of whose errored parts are linked, makes the retry batch exactly the
\* delivery's parts at the errored indices, in the order of the walk.
C11_PartialCorrelation ==
    \A t \in Threads :
        (Structured(t) /\ AllLinked(cb[t].arg.walk)) =>
            cb[t].m.msg = ErroredParts(cb[t].was, cb[t].arg.walk)

\* C11 as amended: the same when the walk reports at least one part with an
\* error; the entry appended holds that batch.
C11_PartialSubset ==
    \A t \in Threads :
        /\ (Structured(t) /\ AllLinked(cb[t].arg.walk) /\ Errored(cb[t].arg.walk) # << >>) =>
                cb[t].m.msg = ErroredParts(cb[t].was, cb[t].arg.walk)
        /\ Appended(t)

\* C11 witness: a batch of two parts failed at its second part only; the
\* entry appended holds that part alone.
C11_Witness ==
    \E t \in Threads :
        /\ cb[t].pc = "interrupt" /\ Structured(t)
        /\ cb[t].was = <<1, 2>>
        /\ cb[t].arg.walk = <<[tag |-> 1, e |-> FALSE], [tag |-> 2, e |-> TRUE]>>
        /\ resendMessages = <<cb[t].m>>
        /\ cb[t].m.msg = <<2>>

\* C12: the retry entry holds the whole batch of the failed delivery when
\* the batch has one part, when the error is plain, when the error counts at
\* least as many part errors as the batch has parts, when an errored part
\* cannot be linked back (whatever was linked before it), and when no part
\* is reported with an error.
C12_WholeBatch ==
    \A t \in Threads :
        /\ (Reporting(t) /\ Len(cb[t].was) = 1) => cb[t].m.msg = cb[t].was
        /\ (Reporting(t) /\ cb[t].arg.kind = ErrPlain) => cb[t].m.msg = cb[t].was
        /\ (Reporting(t) /\ cb[t].arg.kind = ErrWalkable /\ cb[t].arg.n >= Len(cb[t].was)) =>
                cb[t].m.msg = cb[t].was
        /\ (Structured(t) /\ ~AllLinked(cb[t].arg.walk)) => cb[t].m.msg = cb[t].was
        /\ (Structured(t) /\ Errored(cb[t].arg.walk) = << >>) => cb[t].m.msg = cb[t].was
        /\ cb[t].pc = "interrupt" =>
                /\ resendMessages # << >>
                /\ resendMessages[Len(resendMessages)].msg = cb[t].m.msg

\* C12 witness: a batch of two parts failed at both; the first errored part
\* is linked, the second is not: the entry appended holds both parts.
C12_Witness ==
    \E t \in Threads :
        /\ cb[t].pc = "interrupt" /\ Structured(t)
        /\ cb[t].was = <<1, 2>>
        /\ cb[t].arg.walk = <<[tag |-> 1, e |-> TRUE], [tag |-> 0, e |-> TRUE]>>
        /\ resendMessages = <<cb[t].m>>
        /\ cb[t].m.msg = <<1, 2>>

\* ------------------------------------------------------ attempts and backoff
\* a request pops the front entry of the queue
Pops == pc = "inspect" /\ resendMessages # << >> /\ resendMessages' = Tail(resendMessages)

\* C13: the attempts of an entry start at 0, a pop adds one, a failure
\* report carries them (and the backoff) over; a redelivery with attempts 1
\* or 2 is returned by the pop itself, without a sleep and without
\* consulting the backoff; one with attempts 3 or more consults the backoff
\* of the entry, sleeps for the delay it answers and is then returned; a
\* queued entry is popped whatever its attempts are.
C13_AttemptsAndBackoff ==
    /\ [][(pc = "srcRead" /\ ret'.kind = "batch") =>
                (ret'.m.attempts = 0 /\ ret'.m.boff = 0)]_vars
    /\ [][Pops =>
            LET h == Head(resendMessages)
            IN  IF h.attempts + 1 <= 2
                THEN /\ pc' = "idle" /\ ret'.kind = "batch"
                     /\ ret'.m = [h EXCEPT !.attempts = h.attempts + 1]
                ELSE /\ pc' = "sleep" /\ tout' > 0
                     /\ resend' = [h EXCEPT !.attempts = h.attempts + 1,
                                            !.boff = h.boff + 1]]_vars
    /\ [][(pc = "sleep" /\ pc' # "sleep") =>
            \/ ret'.kind = "batch" /\ ret'.m = resend
            \/ ret'.kind = CtxErr /\ CtxDone]_vars
    /\ [][\A t \in Threads :
            /\ FailureInvoked(t) =>
                    /\ cb'[t].m.attempts = cb[t].m.attempts
                    /\ cb'[t].m.boff = cb[t].m.boff
            /\ FailureAppends(t) =>
                    /\ resendMessages' # << >>
                    /\ resendMessages'[Len(resendMessages')].attempts = cb[t].m.attempts
                    /\ resendMessages'[Len(resendMessages')].boff = cb[t].m.boff]_vars
    /\ []((pc = "inspect" /\ resendMessages # << >>) => ENABLED (RB_PopNow \/ RB_PopBackoff))

\* C13 witness: an entry that was returned at once with attempts 1 and 2,
\* and after a sleep with attempts 3, is in its sleep with attempts 4 after
\* the second consultation of its backoff.
C13_Witness ==
    pc = "sleep" /\ resend.attempts = 4 /\ resend.boff = 2 /\ tout > 0

\* the delay the claim expects of call number k of NextBackOff(): 1 ms, then
\* 1.1 times the previous one, up to 1 s
RECURSIVE ClaimedDelay(_)
ClaimedDelay(k) ==
    IF k <= 1 THEN InitialInterval
    ELSE LET prev == ClaimedDelay(k - 1)
         IN  IF prev * MultiplierNum >= MaxInterval * MultiplierDen
             THEN MaxInterval
             ELSE (prev * MultiplierNum) \div MultiplierDen

\* C14: the delays of an entry from its third redelivery onward start at
\* 1 ms, grow by the factor 1.1 per step without ever decreasing and stay
\* within 1 s; only the redeliveries of the entry itself advance its backoff.
C14_BackoffGrowth ==
    pc = "sleep" =>
        /\ tout = ClaimedDelay(resend.boff)
        /\ tout <= MaxInterval
        /\ resend.boff = resend.attempts - BackoffThreshold

\* ------------------------------------------------------- in-flight counter
\* C15: pendingMessages is never below 0 and never below the number of
\* entries in the queue.
C15_CounterCoversQueue ==
    /\ pendingMessages >= 0
    /\ pendingMessages >= Len(resendMessages)

\* C15 witness: two batches in flight, both of them queued for a retry.
C15_Witness ==
    pendingMessages = 2 /\ Len(resendMessages) = 2 /\ msgsMut = {}

\* the invocations of the original functions made so far
RECURSIVE Forwarded(_)
Forwarded(bs) ==
    IF bs = {} THEN 0
    ELSE LET b == CHOOSE x \in bs : TRUE
         IN  Len(acks[b]) + Forwarded(bs \ {b})

\* The wrapped functions invoked with success so far: each of them
\* decrements the counter and then invokes the original function once.
Successes == Forwarded(Batches) + Cardinality({t \in Threads : cb[t].pc = "ackFn"})

\* a wrapped function is invoked with success / a fresh batch is read
SuccessInvoked(t) == cb[t].pc = "held" /\ cb'[t].pc = "ackFn"
FreshRead == pc = "srcRead" /\ ret'.kind = "batch"

\* C16: pendingMessages is the number of batches obtained from the source
\* minus the number of wrapped functions invoked with success: a fresh read
\* adds one, a success (also of a retried subset) takes one away, and nothing
\* else changes it.
C16_InFlightAccounting ==
    /\ [](pendingMessages = nextBatch - Successes)
    /\ [][FreshRead => (pendingMessages' = pendingMessages + 1 /\ nextBatch' = nextBatch + 1)]_vars
    /\ [][\A t \in Threads : SuccessInvoked(t) => pendingMessages' = pendingMessages - 1]_vars
    /\ [][pendingMessages' # pendingMessages =>
            (FreshRead \/ \E t \in Threads : SuccessInvoked(t))]_vars

\* C16 witness: a batch of two parts failed at one part, the part was
\* redelivered alone and acknowledged: the counter is back at 0.
C16_Witness ==
    /\ nextBatch = 1 /\ firstSize = 2 /\ pendingMessages = 0
    /\ \E t \in Threads : cb[t].pc = "ackFn" /\ Len(cb[t].m.msg) = 1 /\ cb[t].m.attempts = 1

\* --------------------------------------------------------------- inputClosed
\* C17: inputClosed, once set, stays set, and from then on no request calls
\* the source's ReadBatch: a request that finds the queue empty returns
\* closed at once when pendingMessages is 0 and enters the drain wait
\* otherwise.
C17_ClosedFlagSticks ==
    /\ [][inputClosed > 0 => inputClosed' > 0]_vars
    /\ [](inputClosed > 0 => (pc # "srcRead" /\ ~srcCalled))
    /\ [][(inputClosed > 0 /\ pc = "fresh" /\ pc' # "fresh") =>
            \/ pendingMessages <= 0 /\ pc' = "idle" /\ ret'.kind = ErrTypeClosed
            \/ pendingMessages > 0 /\ pc' = "drain"]_vars

\* C17 witness: with inputClosed set, a request has returned closed.
C17_Witness ==
    /\ inputClosed > 0 /\ pendingMessages = 0
    /\ ret.op = "ReadBatch" /\ ret.kind = ErrTypeClosed

\* the source's Connect / ReadBatch reports the end of the stream while
\* batches are in flight
ConnectReportsClosed == pc = "connect" /\ err = ErrTypeClosed /\ pendingMessages > 0 /\ pc' = "idle"
ReadReportsClosed == pc = "srcRead" /\ pc' = "drain"

\* C18 as stated: inputClosed is set whenever the source reports the end of
\* the stream while batches are in flight, from its Connect or from its
\* ReadBatch, and the source's ReadBatch is not called with the flag set.
C18_FlagOnAnyReport ==
    /\ [][ConnectReportsClosed => inputClosed' > 0]_vars
    /\ [][ReadReportsClosed => inputClosed' > 0]_vars
    /\ [](inputClosed > 0 => pc # "srcRead")

\* C18 as amended: inputClosed is set exactly when the source's Connect
\* reports the end of the stream while batches are in flight, and the
\* source's ReadBatch is not called with the flag set; a report from the
\* source's ReadBatch leaves the flag as it is.
C18_FlagOnConnectReport ==
    /\ [][ConnectReportsClosed => inputClosed' > 0]_vars
    /\ [][inputClosed' # inputClosed => ConnectReportsClosed]_vars
    /\ [][ReadReportsClosed => inputClosed' = inputClosed]_vars
    /\ [](inputClosed > 0 => pc # "srcRead")

\* C18 witness: a request waits for the drain after the source's ReadBatch
\* reported the end of the stream, and inputClosed is not set.
C18_Witness ==
    pc = "drain" /\ srcCalled /\ pendingMessages > 0 /\ inputClosed = 0

\* C19: outside the exclusive region of a failure report, the queue is never
\* non-empty while the reader is past its inspection of the queue (about to
\* call the source, in the source's read or in the drain wait) with a scope
\* that is not cancelled: a report made after the inspection finds the
\* request's cancel() installed and invokes it.
C19_NoLostWakeup ==
    (/\ resendMessages # << >>
     /\ pc \in {"fresh", "srcRead", "drain"}
     /\ \A t \in Threads : cb[t].pc # "interrupt") => cancelled

\* C19 witness: a failure was reported while the request was in the source's
\* read; the entry is queued and the request's scope cancelled, the caller's
\* own scope being live.
C19_Witness ==
    /\ pc = "srcRead" /\ resendMessages # << >> /\ cancelled /\ ~callerDone
    /\ \A t \in Threads : cb[t].pc \notin {"append", "interrupt"}

\* -------------------------------------------------------------------- drain
\* C20: once the end of the stream has been seen (inputClosed is set, or a
\* request waits for the drain), under the fairness of LiveSpec some
\* ReadBatch request eventually returns closed with pendingMessages at 0.
C20_DrainCompletes ==
    (pc = "drain" \/ inputClosed > 0) ~>
        (ret.op = "ReadBatch" /\ ret.kind = ErrTypeClosed /\ pendingMessages = 0)

====
